---- MODULE Spec2Model ----
(***************************************************************************)
(* Model of the Analytics class of wontum-player (the telemetry pipeline): *)
(* the QoE accumulator, the event list, the HTTP / WebSocket / Socket.IO   *)
(* sinks and the WebSocket reconnect timer.                                 *)
(*                                                                         *)
(* Conventions.  null and undefined numbers are 0 where the code only     *)
(* tests them for truthiness (playbackStartTime, bufferStartTime,           *)
(* wsReconnectTimeout, reconnectDelay); object references (webSocket,       *)
(* socketIO) are indices into the model's object tables, 0 for null.       *)
(* Date.now() is the variable clock, which starts at 1 and never goes back. *)
(* An absent config behaves as a config whose fields are all undefined     *)
(* (the code reads it only through config?.field).                         *)
(***************************************************************************)
EXTENDS Integers, Sequences, FiniteSets, TLC

\* ---------------------------------------------------------------- bounds
MaxCalls == 2        \* trackEvent() calls of the caller in the lifecycle specifications
MaxMetricCalls == 4  \* trackEvent() calls of the caller in SpecMetrics
MaxTicks == 3        \* 1 ms steps of the clock in SpecMetrics
MaxLifeTicks == 1    \* 1 ms steps of the clock in Spec
MaxWsTicks == 3      \* 1 ms steps of the clock in SpecWs
MaxDestroys == 1     \* destroy() calls
MaxCloses == 3       \* closes of a live channel decided by the network
MaxReturned == 2     \* arrays handed out by getEvents()
MaxMutations == 2    \* mutations the caller applies to returned arrays
MaxSinkCalls == 2    \* trackEvent() calls of the caller in SpecSinks
MaxSinkCloses == 1   \* closes / disconnects decided by the network in SpecSinks
MaxRepeatedDestroys == 2  \* destroy() calls in SpecRepeat
MaxTypeCalls == 2    \* trackEvent() calls of the caller in SpecTypes
MaxTypeTicks == 2    \* 1 ms steps of the clock in SpecTypes

\* ------------------------------------------------------- program constants
DefaultReconnectDelay == 3000
RatioScale == 1000

Undefined == "undefined"

\* The six event types updateMetrics special-cases, and one it does not.
MetricEventTypes == {"play", "pause", "ended", "buffering_start", "buffering_end", "seeked"}
EventTypes == MetricEventTypes \cup {"error"}
\* The types that open and close the play and the buffering intervals.
IntervalEventTypes == {"play", "pause", "ended", "buffering_start", "buffering_end"}

VARIABLES
    config,              \* AnalyticsConfig (fixed at construction)
    clock,               \* Date.now()
    sessionId, sessionStartTime,
    arrays, eventsRef,   \* the heap of arrays, and this.events (a reference into it)
    playbackStartTime, totalPlayTime, totalBufferTime, bufferStartTime,
    rebufferCount, seekCount,
    webSocket, socketIO, wsReconnectTimeout, isDestroyed,
    sockets,             \* the WebSocket objects: <<[readyState |-> ...], ...>>
    timers,              \* pending window.setTimeout timers: {[id, deadline]}
    nextTimerId,
    sio,                 \* the Socket.IO client object: [exists, connected, listeners, active]
    sioInit,             \* where the async initializeSocketIO() stands
    httpPosts,           \* bodies of the POSTs issued by fetch, in order
    httpInFlight,        \* fetch promises not yet settled
    wsSent, sioSent,     \* what webSocket.send / socketIO.emit were given
    callerRefs,          \* arrays the caller got from getEvents()
    calls,               \* history: every trackEvent() invocation [eventType, at, pushed]
    closes, attempts,    \* history: channel closes and reconnect attempts
    counters,            \* history: [ticks, destroys, mutations]
    lastOp               \* history: the operation that produced this state

metricVars == <<playbackStartTime, totalPlayTime, totalBufferTime, bufferStartTime,
                rebufferCount, seekCount>>
sessionVars == <<config, sessionId, sessionStartTime>>
heapVars == <<arrays, eventsRef>>
wsVars == <<webSocket, wsReconnectTimeout, sockets, timers, nextTimerId, closes, attempts>>
sioVars == <<socketIO, sio, sioInit>>
sinkLogs == <<httpPosts, httpInFlight, wsSent, sioSent>>
vars == <<config, clock, sessionId, sessionStartTime, arrays, eventsRef,
          playbackStartTime, totalPlayTime, totalBufferTime, bufferStartTime,
          rebufferCount, seekCount, webSocket, socketIO, wsReconnectTimeout,
          isDestroyed, sockets, timers, nextTimerId, sio, sioInit, httpPosts, httpInFlight,
          wsSent, sioSent, callerRefs, calls, closes, attempts, counters, lastOp>>

\* ------------------------------------------------------------ configuration
NoWebSocket ==
    [type |-> "none", connection |-> "none", autoReconnect |-> Undefined,
     reconnectDelay |-> 0, transform |-> Undefined, onClose |-> Undefined,
     initialReadyState |-> "CLOSED", initialConnected |-> FALSE]

\* WebSocketAnalyticsHandler: connection is a URL string or a caller-supplied
\* instance (in the readyState it has when handed over); autoReconnect and
\* reconnectDelay are optional (reconnectDelay 0 stands for an absent one);
\* onClose is the caller's callback, absent, returning normally or throwing.
WebSocketHandlers ==
    { [type |-> "websocket", connection |-> c[1], autoReconnect |-> a,
       reconnectDelay |-> d, transform |-> Undefined, onClose |-> cb,
       initialReadyState |-> c[2], initialConnected |-> FALSE] :
        c \in {<<"url", "CONNECTING">>, <<"instance", "CONNECTING">>, <<"instance", "OPEN">>},
        a \in {Undefined, "true", "false"},
        d \in {0, 2},
        cb \in {Undefined, "returns", "throws"} }

\* The raw WebSocket handlers of the delivery specification: no reconnection, the
\* optional transform absent or given.
PlainWebSocketHandlers ==
    { [type |-> "websocket", connection |-> c[1], autoReconnect |-> "false",
       reconnectDelay |-> 0, transform |-> tr, onClose |-> Undefined,
       initialReadyState |-> c[2], initialConnected |-> FALSE] :
        c \in {<<"url", "CONNECTING">>, <<"instance", "OPEN">>},
        tr \in {Undefined, "given"} }

\* SocketIOAnalyticsHandler: connection is a URL string or a caller-supplied
\* client (connected when handed over); eventName is left absent.
SocketIOHandlers ==
    { [type |-> "socket.io", connection |-> c[1], autoReconnect |-> Undefined,
       reconnectDelay |-> 0, transform |-> tr, onClose |-> Undefined,
       initialReadyState |-> "CLOSED", initialConnected |-> c[2]] :
        c \in {<<"url", FALSE>>, <<"instance", TRUE>>},
        tr \in {Undefined, "given"} }

NoIds == <<Undefined, Undefined, Undefined>>
SomeIds == <<"s1", "v1", "u1">>

\* AnalyticsConfig: enabled, endpoint, <<sessionId, videoId, userId>>, webSocket.
AnalyticsConfigs(enabledValues, endpoints, idValues, handlers) ==
    { [enabled |-> e, endpoint |-> ep, sessionId |-> ids[1], videoId |-> ids[2],
       userId |-> ids[3], webSocket |-> w] :
        e \in enabledValues, ep \in endpoints, ids \in idValues, w \in handlers }

\* Faulty variant of Enabled: tracking is on unless it is switched off.
Enabled_UnlessFalse == config.enabled # "false"

\* if (!this.config?.enabled) return
Enabled == config.enabled = "true"

events == arrays[eventsRef]

\* ------------------------------------------------------------ QoE metrics
\* Math.round(x * 1000) for the quotient x = totalBufferTime / totalPlayTime,
\* kept as the integer number of thousandths (the reported ratio is this / 1000).
RoundedRatio(bufferTime, playTime) ==
    (2 * RatioScale * bufferTime + playTime) \div (2 * playTime)

\* Faulty variant of bufferingRatio: the share of buffer time in the whole watch
\* time, guarded on that sum instead of on the play time.
bufferingRatio_OfWatchTime(bufferTime, playTime) ==
    IF bufferTime + playTime > 0 THEN RoundedRatio(bufferTime, bufferTime + playTime) ELSE 0

\* bufferingRatio of getQoEMetrics, in thousandths.
bufferingRatio(bufferTime, playTime) ==
    IF playTime > 0 THEN RoundedRatio(bufferTime, playTime) ELSE 0

\* Faulty variant of getQoEMetrics: the duration is the one computed at
\* construction.
getQoEMetrics_CachedDuration ==
    [sessionDuration |-> 0,
     totalPlayTime |-> totalPlayTime,
     totalBufferTime |-> totalBufferTime,
     bufferingRatio |-> bufferingRatio(totalBufferTime, totalPlayTime),
     rebufferCount |-> rebufferCount,
     seekCount |-> seekCount]

\* getQoEMetrics(): the duration and the ratio are computed at each call.
getQoEMetrics ==
    [sessionDuration |-> clock - sessionStartTime,
     totalPlayTime |-> totalPlayTime,
     totalBufferTime |-> totalBufferTime,
     bufferingRatio |-> bufferingRatio(totalBufferTime, totalPlayTime),
     rebufferCount |-> rebufferCount,
     seekCount |-> seekCount]

\* getMetrics(): the QoE metrics plus the session id and the length of the list.
getMetrics ==
    [sessionId |-> sessionId, qoe |-> getQoEMetrics, eventCount |-> Len(events)]

\* The record trackEvent builds: { ...data, ...getQoEMetrics() } keeps the
\* caller's payload (opaque here) beside the metrics read BEFORE updateMetrics.
BuildEvent(eventType, data) ==
    [eventType |-> eventType,
     timestamp |-> clock,
     sessionId |-> sessionId,
     videoId |-> config.videoId,
     userId |-> config.userId,
     data |-> [payload |-> data, metrics |-> getQoEMetrics]]

\* Faulty variant of casePlay: an open marker is kept.
casePlay_KeepsOpenMarker ==
    /\ playbackStartTime' = (IF playbackStartTime # 0 THEN playbackStartTime ELSE clock)
    /\ UNCHANGED <<totalPlayTime, totalBufferTime, bufferStartTime, rebufferCount, seekCount>>

\* updateMetrics, case "play".
casePlay ==
    /\ playbackStartTime' = clock
    /\ UNCHANGED <<totalPlayTime, totalBufferTime, bufferStartTime, rebufferCount, seekCount>>

\* Faulty variant of casePauseEnded: the open marker is not consumed.
casePauseEnded_KeepsMarker ==
    /\ IF playbackStartTime # 0
       THEN totalPlayTime' = totalPlayTime + (clock - playbackStartTime)
       ELSE UNCHANGED totalPlayTime
    /\ UNCHANGED <<playbackStartTime, totalBufferTime, bufferStartTime, rebufferCount,
                   seekCount>>

\* Faulty variant of casePauseEnded: the elapsed time is added even when no
\* marker is open (measured from the session start).
casePauseEnded_Unguarded ==
    /\ totalPlayTime' = totalPlayTime +
         (clock - (IF playbackStartTime # 0 THEN playbackStartTime ELSE sessionStartTime - 1))
    /\ playbackStartTime' = 0
    /\ UNCHANGED <<totalBufferTime, bufferStartTime, rebufferCount, seekCount>>

\* updateMetrics, cases "pause" and "ended".
casePauseEnded ==
    /\ IF playbackStartTime # 0
       THEN /\ totalPlayTime' = totalPlayTime + (clock - playbackStartTime)
            /\ playbackStartTime' = 0
       ELSE UNCHANGED <<totalPlayTime, playbackStartTime>>
    /\ UNCHANGED <<totalBufferTime, bufferStartTime, rebufferCount, seekCount>>

\* Faulty variant of caseBufferingStart: a start is counted only when no
\* buffering interval is open.
caseBufferingStart_CountsOnlyNew ==
    /\ bufferStartTime' = clock
    /\ rebufferCount' = IF bufferStartTime = 0 THEN rebufferCount + 1 ELSE rebufferCount
    /\ UNCHANGED <<playbackStartTime, totalPlayTime, totalBufferTime, seekCount>>

\* updateMetrics, case "buffering_start".
caseBufferingStart ==
    /\ bufferStartTime' = clock
    /\ rebufferCount' = rebufferCount + 1
    /\ UNCHANGED <<playbackStartTime, totalPlayTime, totalBufferTime, seekCount>>

\* Faulty variant of caseBufferingEnd: the elapsed time is added even when no
\* marker is open (measured from the session start).
caseBufferingEnd_Unguarded ==
    /\ totalBufferTime' = totalBufferTime +
         (clock - (IF bufferStartTime # 0 THEN bufferStartTime ELSE sessionStartTime))
    /\ bufferStartTime' = 0
    /\ UNCHANGED <<playbackStartTime, totalPlayTime, rebufferCount, seekCount>>

\* updateMetrics, case "buffering_end".
caseBufferingEnd ==
    /\ IF bufferStartTime # 0
       THEN /\ totalBufferTime' = totalBufferTime + (clock - bufferStartTime)
            /\ bufferStartTime' = 0
       ELSE UNCHANGED <<totalBufferTime, bufferStartTime>>
    /\ UNCHANGED <<playbackStartTime, totalPlayTime, rebufferCount, seekCount>>

\* updateMetrics, case "seeked".
caseSeeked ==
    /\ seekCount' = seekCount + 1
    /\ UNCHANGED <<playbackStartTime, totalPlayTime, totalBufferTime, bufferStartTime,
                   rebufferCount>>

\* Faulty variant of updateMetrics: an error ends the play interval as a pause does.
updateMetrics_ErrorEndsPlay(eventType) ==
    CASE eventType = "play" -> casePlay
      [] eventType \in {"pause", "ended", "error"} -> casePauseEnded
      [] eventType = "buffering_start" -> caseBufferingStart
      [] eventType = "buffering_end" -> caseBufferingEnd
      [] eventType = "seeked" -> caseSeeked
      [] OTHER -> UNCHANGED metricVars

\* updateMetrics: the switch over the event type (no default case).
updateMetrics(eventType) ==
    CASE eventType = "play" -> casePlay
      [] eventType \in {"pause", "ended"} -> casePauseEnded
      [] eventType = "buffering_start" -> caseBufferingStart
      [] eventType = "buffering_end" -> caseBufferingEnd
      [] eventType = "seeked" -> caseSeeked
      [] OTHER -> UNCHANGED metricVars

\* ------------------------------------------------------------------ sinks
\* JSON.stringify of an event: the key/value pairs in insertion order, a key
\* whose value is undefined being left out.
JSONStringify(e) ==
    << <<"eventType", e.eventType>>, <<"timestamp", e.timestamp>>,
       <<"sessionId", e.sessionId>> >>
    \o (IF e.videoId = Undefined THEN <<>> ELSE << <<"videoId", e.videoId>> >>)
    \o (IF e.userId = Undefined THEN <<>> ELSE << <<"userId", e.userId>> >>)
    \o << <<"data", e.data>> >>

\* What the receiver reads back from a body: a missing key reads as undefined.
JSONField(body, key) ==
    IF \E i \in 1..Len(body) : body[i][1] = key
    THEN body[CHOOSE i \in 1..Len(body) : body[i][1] = key][2]
    ELSE Undefined

JSONParse(body) ==
    [eventType |-> JSONField(body, "eventType"),
     timestamp |-> JSONField(body, "timestamp"),
     sessionId |-> JSONField(body, "sessionId"),
     videoId |-> JSONField(body, "videoId"),
     userId |-> JSONField(body, "userId"),
     data |-> JSONField(body, "data")]

WebSocketIsOpen == webSocket # 0 /\ sockets[webSocket].readyState = "OPEN"
SioConnected == socketIO # 0 /\ sio.connected

\* What can go wrong inside one send: the caller's transform throws, or
\* webSocket.send / JSON.stringify throws, or socketIO.emit throws.
SinkFaults == {"transform", "send", "emit"}

\* The faults that can happen in the current state: a statement throws only
\* if it is reached, the transform only if one is configured.
PossibleFaults ==
    { f \in SinkFaults :
        /\ f = "transform" => (config.webSocket.transform # Undefined
                                /\ (WebSocketIsOpen \/ SioConnected))
        /\ f = "send" => WebSocketIsOpen
        /\ f = "emit" => SioConnected }

\* The caller's transform function: any value computed from the event.
transform(event) == [transformed |-> event]

\* const payload = config.transform ? config.transform(event) : event
Payload(event) ==
    IF config.webSocket.transform # Undefined THEN transform(event) ELSE event

\* JSON.stringify(payload)
Serialize(payload) ==
    IF "transformed" \in DOMAIN payload
    THEN << <<"transformed", JSONStringify(payload.transformed)>> >>
    ELSE JSONStringify(payload)

\* Faulty variant of wsOutcome: no try/catch around the transform and the send.
wsOutcome_Uncaught(faults) ==
    IF ~WebSocketIsOpen THEN "skipped"
    ELSE IF config.webSocket.transform # Undefined /\ "transform" \in faults THEN "escaped"
    ELSE IF "send" \in faults THEN "escaped"
    ELSE "sent"

\* How sendToWebSocket ends: skipped when the socket is not OPEN, otherwise the
\* try block sends, or the catch logs what the transform or the send threw.
wsOutcome(faults) ==
    IF ~WebSocketIsOpen THEN "skipped"
    ELSE IF config.webSocket.transform # Undefined /\ "transform" \in faults THEN "transformThrew"
    ELSE IF "send" \in faults THEN "sendThrew"
    ELSE "sent"

\* Faulty variant of sioOutcome: no try/catch around the transform and the emit.
sioOutcome_Uncaught(faults) ==
    IF ~SioConnected THEN "skipped"
    ELSE IF config.webSocket.transform # Undefined /\ "transform" \in faults THEN "escaped"
    ELSE IF "emit" \in faults THEN "escaped"
    ELSE "sent"

\* How sendToSocketIO ends, likewise.
sioOutcome(faults) ==
    IF ~SioConnected THEN "skipped"
    ELSE IF config.webSocket.transform # Undefined /\ "transform" \in faults THEN "transformThrew"
    ELSE IF "emit" \in faults THEN "emitThrew"
    ELSE "sent"

\* trackEvent's call of sendEvent: reached unless an exception left trackEvent
\* before it, and made when an endpoint is configured.
httpOutcome(w, s) ==
    IF "escaped" \in {w, s} THEN "unreached"
    ELSE IF config.endpoint # Undefined THEN "posted"
    ELSE "skipped"

\* sendToWebSocket: webSocket.send(JSON.stringify(payload)) when OPEN.
sendToWebSocket(event, w) ==
    wsSent' = IF w = "sent" THEN Append(wsSent, Serialize(Payload(event))) ELSE wsSent

\* sendToSocketIO: socketIO.emit(eventName, payload) when connected.
sendToSocketIO(event, s) ==
    sioSent' = IF s = "sent"
               THEN Append(sioSent, [eventName |-> "analytics", payload |-> Payload(event)])
               ELSE sioSent

\* sendEvent: one fetch POST whose body is JSON.stringify(event); the promise is
\* not awaited by trackEvent.
sendEvent(event, h) ==
    IF h = "posted" /\ config.endpoint # Undefined
    THEN /\ httpPosts' = Append(httpPosts, JSONStringify(event))
         /\ httpInFlight' = httpInFlight + 1
    ELSE UNCHANGED <<httpPosts, httpInFlight>>

\* Faulty variant of eventsAfterTrack: the list keeps the two latest records only.
eventsAfterTrack_KeepsLatest(eventType, data) ==
    IF Enabled
    THEN [arrays EXCEPT ![eventsRef] =
            IF Len(@) >= 2 THEN <<@[Len(@)], BuildEvent(eventType, data)>>
            ELSE Append(@, BuildEvent(eventType, data))]
    ELSE arrays

\* this.events after trackEvent(eventType, data): the heap with the record
\* pushed on the array this.events refers to.
eventsAfterTrack(eventType, data) ==
    IF Enabled
    THEN [arrays EXCEPT ![eventsRef] = Append(@, BuildEvent(eventType, data))]
    ELSE arrays

\* The history entry of one trackEvent() invocation: the record it built (none
\* when the guard returned), the state of the duplex sinks when it was called,
\* how each send ended and whether an exception left trackEvent.
CallEntry(eventType, pushed, w, s) ==
    [eventType |-> eventType, at |-> clock, pushed |-> pushed,
     wsOpen |-> WebSocketIsOpen, sioOpen |-> SioConnected,
     ws |-> w,
     sio |-> IF w = "escaped" THEN "unreached" ELSE s,
     http |-> IF pushed = <<>> THEN "unreached"
              ELSE httpOutcome(w, IF w = "escaped" THEN "unreached" ELSE s),
     threw |-> (w = "escaped" \/ s = "escaped")]

\* trackEvent past its guard, all its effects but the push above: updateMetrics
\* and the three sends, the duplex sends ending as w and s.
trackEventWith(eventType, data, w, s) ==
    LET event == BuildEvent(eventType, data)
        entry == CallEntry(eventType, <<event>>, w, s)
    IN  /\ updateMetrics(eventType)
        /\ sendToWebSocket(event, entry.ws)
        /\ sendToSocketIO(event, entry.sio)
        /\ sendEvent(event, entry.http)
        /\ calls' = Append(calls, entry)

\* trackEvent(eventType, data): the guard on config.enabled, then the above.
trackEvent(eventType, data, faults) ==
    IF ~Enabled
    THEN /\ UNCHANGED <<metricVars, sinkLogs>>
         /\ calls' = Append(calls, CallEntry(eventType, <<>>, "unreached", "unreached"))
    ELSE trackEventWith(eventType, data, wsOutcome(faults), sioOutcome(faults))

\* ------------------------------------------------------------ construction
\* new WebSocket(url) starts CONNECTING; a caller-supplied instance is adopted
\* in the state it is in.
InitialSockets(cfg) ==
    IF cfg.webSocket.type # "websocket" THEN <<>>
    ELSE IF cfg.webSocket.connection = "url" THEN << [readyState |-> "CONNECTING"] >>
    ELSE << [readyState |-> cfg.webSocket.initialReadyState] >>

\* initializeSocketIO() with a caller-supplied client: adopted, and the four
\* listeners attached, before the constructor goes on (no await on that path);
\* with a URL the client does not exist until the dynamic import resolves.
InitialSocketIO(cfg) ==
    IF cfg.webSocket.type = "socket.io" /\ cfg.webSocket.connection = "instance"
    THEN [exists |-> TRUE, connected |-> cfg.webSocket.initialConnected,
          listeners |-> TRUE, active |-> TRUE]
    ELSE [exists |-> FALSE, connected |-> FALSE, listeners |-> FALSE, active |-> FALSE]

\* The constructor: the session context, the sink, and trackEvent("session_start").
\* Init(configs) is the state after  new Analytics(config)  for a config of configs.
InitWith(configs) ==
    /\ config \in configs
    /\ clock = 1
    /\ sessionId = (IF config.sessionId # Undefined THEN config.sessionId ELSE "session_generated")
    /\ sessionStartTime = clock
    /\ playbackStartTime = 0
    /\ totalPlayTime = 0
    /\ totalBufferTime = 0
    /\ bufferStartTime = 0
    /\ rebufferCount = 0
    /\ seekCount = 0
    /\ isDestroyed = FALSE
    /\ wsReconnectTimeout = 0
    /\ sockets = InitialSockets(config)
    /\ webSocket = (IF Len(sockets) > 0 THEN 1 ELSE 0)
    /\ timers = {}
    /\ nextTimerId = 1
    /\ sio = InitialSocketIO(config)
    /\ socketIO = (IF sio.exists THEN 1 ELSE 0)
    /\ sioInit = (IF config.webSocket.type # "socket.io" THEN "none"
                  ELSE IF config.webSocket.connection = "url" THEN "importing"
                  ELSE "done")
    /\ eventsRef = 1
    /\ arrays = << IF Enabled THEN << BuildEvent("session_start", "session") >> ELSE <<>> >>
    /\ \E faults \in SUBSET PossibleFaults :
          LET event == BuildEvent("session_start", "session")
              entry == CallEntry("session_start", <<event>>, wsOutcome(faults), sioOutcome(faults))
          IN  /\ calls = (IF Enabled THEN <<entry>> ELSE <<>>)
              /\ wsSent = (IF Enabled /\ entry.ws = "sent"
                           THEN << Serialize(Payload(event)) >> ELSE <<>>)
              /\ sioSent = (IF Enabled /\ entry.sio = "sent"
                            THEN << [eventName |-> "analytics", payload |-> Payload(event)] >>
                            ELSE <<>>)
              /\ httpPosts = (IF Enabled /\ entry.http = "posted"
                              THEN << JSONStringify(event) >> ELSE <<>>)
    /\ httpInFlight = Len(httpPosts)
    /\ callerRefs = {}
    /\ closes = <<>>
    /\ attempts = <<>>
    /\ counters = [calls |-> 0, ticks |-> 0, destroys |-> 0, closes |-> 0,
                   returned |-> 0, mutations |-> 0]
    /\ lastOp = "constructor"

\* --------------------------------------------------------------- operations
\* A caller (the player's listeners, useAnalytics) calls trackEvent(t, data).
TrackEventOf(types, maxCalls) ==
    \E t \in types, faults \in SUBSET PossibleFaults :
        /\ counters.calls < maxCalls
        /\ trackEvent(t, "player", faults)
        /\ arrays' = eventsAfterTrack(t, "player")
        /\ counters' = [counters EXCEPT !.calls = @ + 1]
        /\ lastOp' = "trackEvent"
        /\ UNCHANGED <<sessionVars, clock, eventsRef, wsVars, sioVars, isDestroyed, callerRefs>>

TrackEvent == TrackEventOf({"play", "pause", "error"}, MaxCalls)

TrackInterval == TrackEventOf(IntervalEventTypes, MaxMetricCalls)

TrackPlay == TrackEventOf({"play"}, MaxCalls)

\* One millisecond passes; a timer that is due runs before time moves on.
TickUpTo(maxTicks) ==
    /\ counters.ticks < maxTicks
    /\ \A t \in timers : t.deadline > clock
    /\ clock' = clock + 1
    /\ counters' = [counters EXCEPT !.ticks = @ + 1]
    /\ lastOp' = "tick"
    /\ UNCHANGED <<sessionVars, heapVars, metricVars, wsVars, sioVars, sinkLogs,
                   isDestroyed, callerRefs, calls>>

Tick == TickUpTo(MaxTicks)

LifeTick == TickUpTo(MaxLifeTicks)

\* The fetch of sendEvent settles: awaited inside sendEvent only.
FetchResolve ==
    /\ httpInFlight > 0
    /\ httpInFlight' = httpInFlight - 1
    /\ lastOp' = "fetchResolve"
    /\ UNCHANGED <<sessionVars, clock, heapVars, metricVars, wsVars, sioVars, httpPosts,
                   wsSent, sioSent, isDestroyed, callerRefs, calls, counters>>

\* Faulty variant of FetchReject: the failed request is issued again.
FetchReject_Retries ==
    /\ httpInFlight > 0
    /\ httpPosts' = Append(httpPosts, httpPosts[Len(httpPosts)])
    /\ lastOp' = "fetchReject"
    /\ UNCHANGED <<sessionVars, clock, heapVars, metricVars, wsVars, sioVars, httpInFlight,
                   wsSent, sioSent, isDestroyed, callerRefs, calls, counters>>

\* The fetch rejects: the catch logs the error, nothing is sent again.
FetchReject ==
    /\ httpInFlight > 0
    /\ httpInFlight' = httpInFlight - 1
    /\ lastOp' = "fetchReject"
    /\ UNCHANGED <<sessionVars, clock, heapVars, metricVars, wsVars, sioVars, httpPosts,
                   wsSent, sioSent, isDestroyed, callerRefs, calls, counters>>

\* webSocket.close(): a connecting or open socket starts closing; its close event
\* comes later (WsClose).
ClosedByCaller(socks, ws) ==
    IF ws # 0 /\ socks[ws].readyState \in {"CONNECTING", "OPEN"}
    THEN [socks EXCEPT ![ws].readyState = "CLOSING"]
    ELSE socks

\* clearTimeout(handle)
ClearTimeout(pending, handle) == { t \in pending : t.id # handle }

\* What clearTimeout leaves pending.  In the browser it always cancels; in a
\* runtime where cancellation races with a timer that is already due, the
\* callback of such a timer may still be run.
CancelOutcomes(racing) ==
    IF wsReconnectTimeout = 0 THEN {timers}
    ELSE {ClearTimeout(timers, wsReconnectTimeout)} \cup
         (IF racing /\ \E t \in timers : t.id = wsReconnectTimeout /\ t.deadline <= clock
          THEN {timers} ELSE {})

\* Faulty variant of emitSessionEnd: the sinks are torn down first, so that the
\* record finds no duplex sink to go to.
emitSessionEnd_AfterTeardown(faults) ==
    IF Enabled
    THEN trackEventWith("session_end", "session", "skipped", "skipped")
    ELSE UNCHANGED <<metricVars, sinkLogs, calls>>

\* if (this.config?.enabled) { this.trackEvent("session_end", ...) }
emitSessionEnd(faults) ==
    IF Enabled
    THEN trackEvent("session_end", "session", faults)
    ELSE UNCHANGED <<metricVars, sinkLogs, calls>>

\* The teardown calls of destroy() that may throw: webSocket.close(),
\* socketIO.removeAllListeners(), socketIO.disconnect().
TeardownFaults == {"close", "removeAllListeners", "disconnect"}

\* The teardown call that throws in this destroy(), "none" when none does: a
\* call throws only if destroy() reaches it.
TeardownOutcomes(tearFaults) ==
    {"none"} \cup { f \in tearFaults :
                      /\ f = "close" => webSocket # 0
                      /\ f \in {"removeAllListeners", "disconnect"} => socketIO # 0 }

\* Faulty variant of clearedEvents: the list is left as it is.
clearedEvents_KeepsList(heap) == [heap |-> heap, ref |-> eventsRef]

\* this.events = []: a new empty array replaces the list.
clearedEvents(heap) == [heap |-> Append(heap, <<>>), ref |-> Len(heap) + 1]

\* destroy(): the flag, session_end, then the teardown of the sinks and the
\* list.  Nothing in destroy() catches: a teardown call that throws ends it
\* there, the statements after it not run.
DestroyOp(racing, tearFaults, maxDestroys) ==
    \E faults \in SUBSET PossibleFaults, tear \in TeardownOutcomes(tearFaults) :
        /\ counters.destroys < maxDestroys
        /\ isDestroyed' = TRUE
        /\ emitSessionEnd(faults)
        /\ timers' \in CancelOutcomes(racing)
        /\ wsReconnectTimeout' = 0
        /\ IF tear = "close"
           THEN UNCHANGED <<sockets, webSocket>>
           ELSE /\ sockets' = ClosedByCaller(sockets, webSocket)
                /\ webSocket' = 0
        /\ sio' = (IF socketIO = 0 \/ tear \in {"close", "removeAllListeners"} THEN sio
                   ELSE IF tear = "disconnect" THEN [sio EXCEPT !.listeners = FALSE]
                   ELSE [sio EXCEPT !.listeners = FALSE, !.connected = FALSE,
                                    !.active = FALSE])
        /\ socketIO' = (IF tear = "none" THEN 0 ELSE socketIO)
        /\ IF tear = "none"
           THEN /\ arrays' = clearedEvents(eventsAfterTrack("session_end", "session")).heap
                /\ eventsRef' = clearedEvents(eventsAfterTrack("session_end", "session")).ref
           ELSE /\ arrays' = eventsAfterTrack("session_end", "session")
                /\ UNCHANGED eventsRef
        /\ counters' = [counters EXCEPT !.destroys = @ + 1]
        /\ lastOp' = (IF tear = "none" THEN "destroy" ELSE "destroyThrew")
        /\ UNCHANGED <<sessionVars, clock, nextTimerId, closes, attempts, callerRefs, sioInit>>

\* destroy() called once, its teardown calls succeeding.
DestroyWith(racing) == DestroyOp(racing, {}, MaxDestroys)

Destroy == DestroyWith(FALSE)

\* destroy() in a runtime whose timer cancellation can lose the race.
DestroyRacing == DestroyWith(TRUE)

\* destroy() whose teardown calls may throw.
DestroyFailing == DestroyOp(FALSE, TeardownFaults, MaxDestroys)

\* The one destroy() call of a caller that destroys a live instance.
DestroyLive == ~isDestroyed /\ Destroy

\* destroy(), which the caller may call again on a destroyed instance.
DestroyRepeated == DestroyOp(FALSE, {}, MaxRepeatedDestroys)

\* Faulty variant of getEvents: the internal array itself is returned.
getEvents_Live == [heap |-> arrays, ref |-> eventsRef]

\* getEvents(): [...this.events], a new array holding the same records.
getEvents == [heap |-> Append(arrays, events), ref |-> Len(arrays) + 1]

\* The caller calls getEvents() and keeps the result.
GetEvents ==
    /\ counters.returned < MaxReturned
    /\ arrays' = getEvents.heap
    /\ callerRefs' = callerRefs \cup {getEvents.ref}
    /\ counters' = [counters EXCEPT !.returned = @ + 1]
    /\ lastOp' = "getEvents"
    /\ UNCHANGED <<sessionVars, clock, eventsRef, metricVars, wsVars, sioVars, sinkLogs,
                   isDestroyed, calls>>

\* The caller adds, removes or replaces an element of an array it was handed.
CallerMutates ==
    \E r \in callerRefs :
        /\ counters.mutations < MaxMutations
        /\ \/ arrays' = [arrays EXCEPT ![r] = Append(@, BuildEvent("forged", "caller"))]
           \/ /\ Len(arrays[r]) > 0
              /\ arrays' = [arrays EXCEPT ![r] = SubSeq(@, 1, Len(@) - 1)]
           \/ /\ Len(arrays[r]) > 0
              /\ arrays' = [arrays EXCEPT ![r][1] = BuildEvent("forged", "caller")]
        /\ counters' = [counters EXCEPT !.mutations = @ + 1]
        /\ lastOp' = "mutate"
        /\ UNCHANGED <<sessionVars, clock, eventsRef, metricVars, wsVars, sioVars, sinkLogs,
                       isDestroyed, callerRefs, calls>>

\* ---------------------------------------------------------- WebSocket sink
\* Faulty variant of AutoReconnect: the option is not read.
AutoReconnect_DefaultsOn == TRUE

\* const autoReconnect = wsConfig.autoReconnect !== false
AutoReconnect == config.webSocket.autoReconnect # "false"

\* const delay = wsConfig.reconnectDelay || 3000
ReconnectDelay ==
    IF config.webSocket.reconnectDelay # 0 THEN config.webSocket.reconnectDelay
    ELSE DefaultReconnectDelay

\* Faulty variant of initializeWebSocket: a new WebSocket is opened also when
\* the caller supplied the connection.
initializeWebSocket_AlwaysNew ==
    IF config.webSocket.type # "websocket"
    THEN UNCHANGED <<webSocket, sockets>>
    ELSE /\ sockets' = Append(sockets, [readyState |-> "CONNECTING"])
         /\ webSocket' = Len(sockets) + 1

\* initializeWebSocket(): a URL gets a new WebSocket, a caller-supplied instance
\* is taken again as it is; the three handlers are (re)attached to it.
initializeWebSocket ==
    IF config.webSocket.type # "websocket"
    THEN UNCHANGED <<webSocket, sockets>>
    ELSE IF config.webSocket.connection = "url"
    THEN /\ sockets' = Append(sockets, [readyState |-> "CONNECTING"])
         /\ webSocket' = Len(sockets) + 1
    ELSE /\ webSocket' = 1
         /\ UNCHANGED sockets

\* Faulty variant of OnOpen: the records tracked so far are sent once the socket
\* opens.
OnOpen_FlushesBacklog ==
    \E s \in 1..Len(sockets) :
        /\ sockets[s].readyState = "CONNECTING"
        /\ sockets' = [sockets EXCEPT ![s].readyState = "OPEN"]
        /\ wsSent' = wsSent \o [i \in 1..Len(events) |-> Serialize(Payload(events[i]))]
        /\ lastOp' = "wsOpen"
        /\ UNCHANGED <<sessionVars, clock, heapVars, metricVars, webSocket, wsReconnectTimeout,
                       timers, nextTimerId, closes, attempts, sioVars, httpPosts, httpInFlight,
                       sioSent, isDestroyed, callerRefs, calls, counters>>

\* webSocket.onopen: the connection of socket s is established.
OnOpen ==
    \E s \in 1..Len(sockets) :
        /\ sockets[s].readyState = "CONNECTING"
        /\ sockets' = [sockets EXCEPT ![s].readyState = "OPEN"]
        /\ lastOp' = "wsOpen"
        /\ UNCHANGED <<sessionVars, clock, heapVars, metricVars, webSocket, wsReconnectTimeout,
                       timers, nextTimerId, closes, attempts, sioVars, sinkLogs, isDestroyed,
                       callerRefs, calls, counters>>

\* Faulty variant of OnError: the error handler schedules a reconnect as well.
OnError_AlsoReconnects ==
    \E s \in 1..Len(sockets) :
        /\ sockets[s].readyState \in {"CONNECTING", "OPEN"}
        /\ nextTimerId <= MaxCloses + 1
        /\ wsReconnectTimeout' = nextTimerId
        /\ timers' = timers \cup {[id |-> nextTimerId, deadline |-> clock + ReconnectDelay]}
        /\ nextTimerId' = nextTimerId + 1
        /\ lastOp' = "wsError"
        /\ UNCHANGED <<sessionVars, clock, heapVars, metricVars, webSocket, sockets, closes,
                       attempts, sioVars, sinkLogs, isDestroyed, callerRefs, calls, counters>>

\* webSocket.onerror: logs and calls onError.
OnError ==
    \E s \in 1..Len(sockets) :
        /\ sockets[s].readyState \in {"CONNECTING", "OPEN"}
        /\ lastOp' = "wsError"
        /\ UNCHANGED <<sessionVars, clock, heapVars, metricVars, wsVars, sioVars, sinkLogs,
                       isDestroyed, callerRefs, calls, counters>>

\* if (wsConfig.onClose) { wsConfig.onClose(event) }: the caller's callback is
\* called unguarded, so its exception ends the handler there.
OnCloseCallbackThrows == config.webSocket.onClose = "throws"

\* Faulty variant of ArmsReconnect: the destroyed flag is not consulted.
ArmsReconnect_IgnoresDestroyed == ~OnCloseCallbackThrows /\ AutoReconnect

\* The handler reaches  if (autoReconnect && !this.isDestroyed)  and enters it.
ArmsReconnect == ~OnCloseCallbackThrows /\ AutoReconnect /\ ~isDestroyed

\* webSocket.onclose: socket s is closed, by the network or after close(); the
\* handler arms the reconnect timer with window.setTimeout.
OnClose ==
    \E s \in 1..Len(sockets) :
        /\ sockets[s].readyState # "CLOSED"
        /\ sockets[s].readyState # "CLOSING" => counters.closes < MaxCloses
        /\ sockets' = [sockets EXCEPT ![s].readyState = "CLOSED"]
        /\ IF ArmsReconnect
           THEN /\ wsReconnectTimeout' = nextTimerId
                /\ timers' = timers \cup {[id |-> nextTimerId, deadline |-> clock + ReconnectDelay]}
                /\ nextTimerId' = nextTimerId + 1
           ELSE UNCHANGED <<wsReconnectTimeout, timers, nextTimerId>>
        /\ closes' = Append(closes,
              [sock |-> s, at |-> clock, destroyed |-> isDestroyed,
               timer |-> IF ArmsReconnect THEN nextTimerId ELSE 0])
        /\ counters' = [counters EXCEPT
              !.closes = IF sockets[s].readyState = "CLOSING" THEN @ ELSE @ + 1]
        /\ lastOp' = "wsClose"
        /\ UNCHANGED <<sessionVars, clock, heapVars, metricVars, webSocket, attempts, sioVars,
                       sinkLogs, isDestroyed, callerRefs, calls>>

\* The reconnect timer expires: () => { this.initializeWebSocket() }
TimerFires ==
    \E t \in timers :
        /\ t.deadline <= clock
        /\ timers' = timers \ {t}
        /\ initializeWebSocket
        /\ attempts' = Append(attempts, [at |-> clock, timer |-> t.id])
        /\ lastOp' = "reconnect"
        /\ UNCHANGED <<sessionVars, clock, heapVars, metricVars, wsReconnectTimeout,
                       nextTimerId, closes, sioVars, sinkLogs, isDestroyed, callerRefs, calls,
                       counters>>

\* Time passes up to the expiry of the earliest pending timer.
AdvanceToTimer ==
    /\ timers # {}
    /\ \A t \in timers : t.deadline > clock
    /\ \E t \in timers :
          /\ \A u \in timers : t.deadline <= u.deadline
          /\ clock' = t.deadline
    /\ lastOp' = "advance"
    /\ UNCHANGED <<sessionVars, heapVars, metricVars, wsVars, sioVars, sinkLogs, isDestroyed,
                   callerRefs, calls, counters>>

WsTick == TickUpTo(MaxWsTicks)

\* --------------------------------------------------------- Socket.IO sink
\* initializeSocketIO() after  await import("socket.io-client")  resolved:
\* io(url, options) creates the client and the four listeners are attached.
SioImportResolves ==
    /\ sioInit = "importing"
    /\ sioInit' = "done"
    /\ socketIO' = 1
    /\ sio' = [exists |-> TRUE, connected |-> FALSE, listeners |-> TRUE, active |-> TRUE]
    /\ lastOp' = "sioImported"
    /\ UNCHANGED <<sessionVars, clock, heapVars, metricVars, wsVars, sinkLogs, isDestroyed,
                   callerRefs, calls, counters>>

\* The dynamic import rejects: the catch logs the error.
SioImportRejects ==
    /\ sioInit = "importing"
    /\ sioInit' = "failed"
    /\ lastOp' = "sioImportFailed"
    /\ UNCHANGED <<sessionVars, clock, heapVars, metricVars, wsVars, socketIO, sio, sinkLogs,
                   isDestroyed, callerRefs, calls, counters>>

\* The client connects (the "connect" listener logs and calls onConnect).
SioConnect ==
    /\ sio.exists /\ sio.active /\ ~sio.connected
    /\ sio' = [sio EXCEPT !.connected = TRUE]
    /\ lastOp' = "sioConnect"
    /\ UNCHANGED <<sessionVars, clock, heapVars, metricVars, wsVars, socketIO, sioInit, sinkLogs,
                   isDestroyed, callerRefs, calls, counters>>

\* The network drops the connection (the "disconnect" listener logs and calls
\* onDisconnect); the client stays active and may connect again.
SioDisconnect ==
    /\ sio.connected
    /\ counters.closes < MaxSinkCloses
    /\ sio' = [sio EXCEPT !.connected = FALSE]
    /\ counters' = [counters EXCEPT !.closes = @ + 1]
    /\ lastOp' = "sioDisconnect"
    /\ UNCHANGED <<sessionVars, clock, heapVars, metricVars, wsVars, socketIO, sioInit, sinkLogs,
                   isDestroyed, callerRefs, calls>>

TrackSink == TrackEventOf({"buffering_start"}, MaxSinkCalls)

\* Event types the player tracks that updateMetrics has no case for.
OtherEventTypes == {"error", "loadedmetadata"}

TrackAny == TrackEventOf(MetricEventTypes \cup OtherEventTypes, MaxTypeCalls)

TypeTick == TickUpTo(MaxTypeTicks)

\* ----------------------------------------------------------- specifications
\* The facade's lifecycle with the HTTP sink: construction, trackEvent, destroy.
Init ==
    InitWith(AnalyticsConfigs({"true", "false"}, {Undefined, "https://collect"},
                              {NoIds, SomeIds}, {NoWebSocket}))

Next ==
    \/ TrackEvent
    \/ LifeTick
    \/ FetchResolve
    \/ FetchReject
    \/ Destroy

Spec == Init /\ [][Next]_vars

\* The accumulator under every sequence of interval events on an enabled instance.
InitMetrics == InitWith(AnalyticsConfigs({"true"}, {Undefined}, {NoIds}, {NoWebSocket}))

NextMetrics ==
    \/ TrackInterval
    \/ Tick

SpecMetrics == InitMetrics /\ [][NextMetrics]_vars

\* The caller reading the event list with getEvents() and changing what it got.
InitCopy == InitWith(AnalyticsConfigs({"true"}, {Undefined}, {NoIds}, {NoWebSocket}))

NextCopy ==
    \/ TrackPlay
    \/ GetEvents
    \/ CallerMutates
    \/ Destroy

SpecCopy == InitCopy /\ [][NextCopy]_vars

\* The raw WebSocket sink: its channel events, the reconnect timer and destroy()
\* (which sends session_end on an open socket before closing it).
InitWs == InitWith(AnalyticsConfigs({"true"}, {Undefined}, {NoIds}, WebSocketHandlers))

NextWs ==
    \/ OnOpen
    \/ OnError
    \/ OnClose
    \/ TimerFires
    \/ AdvanceToTimer
    \/ WsTick
    \/ Destroy

SpecWs == InitWs /\ [][NextWs]_vars

\* The same, with the event loop running every timer that is due.
SpecWsFair == SpecWs /\ WF_vars(TimerFires) /\ WF_vars(AdvanceToTimer)

\* The same sink in a runtime whose clearTimeout can lose the race with a timer
\* that is already due.
NextWsRace ==
    \/ OnOpen
    \/ OnError
    \/ OnClose
    \/ TimerFires
    \/ AdvanceToTimer
    \/ WsTick
    \/ DestroyRacing

SpecWsRace == InitWs /\ [][NextWsRace]_vars

\* Delivery: trackEvent and destroy() against the HTTP endpoint and one duplex
\* sink (raw WebSocket or Socket.IO), with sends and transforms that may throw.
InitSinks ==
    InitWith(AnalyticsConfigs({"true"}, {"https://collect"}, {NoIds},
                              PlainWebSocketHandlers \cup SocketIOHandlers))

NextSinks ==
    \/ TrackSink
    \/ OnOpen
    \/ OnClose
    \/ SioImportResolves
    \/ SioImportRejects
    \/ SioConnect
    \/ SioDisconnect
    \/ FetchReject
    \/ Destroy

SpecSinks == InitSinks /\ [][NextSinks]_vars

\* The same operations on an instance constructed with enabled false or absent.
InitDisabled ==
    InitWith(AnalyticsConfigs({"false", Undefined}, {Undefined, "https://collect"}, {NoIds},
                              PlainWebSocketHandlers \cup SocketIOHandlers))

NextDisabled ==
    \/ TrackSink
    \/ OnOpen
    \/ OnClose
    \/ SioImportResolves
    \/ SioConnect
    \/ SioDisconnect
    \/ Destroy

SpecDisabled == InitDisabled /\ [][NextDisabled]_vars

\* destroy() with teardown calls that may throw, against one duplex sink.
NextTeardown ==
    \/ TrackSink
    \/ OnOpen
    \/ OnClose
    \/ SioImportResolves
    \/ SioConnect
    \/ DestroyFailing

SpecTeardown == InitSinks /\ [][NextTeardown]_vars

\* The facade's lifecycle with a caller that calls destroy() more than once.
NextRepeat ==
    \/ TrackPlay
    \/ FetchResolve
    \/ DestroyRepeated

SpecRepeat == Init /\ [][NextRepeat]_vars

\* The accumulator under every sequence of event types, special-cased or not.
NextTypes ==
    \/ TrackAny
    \/ TypeTick
    \/ DestroyLive

SpecTypes == InitMetrics /\ [][NextTypes]_vars

\* ------------------------------------------------------- history operators
RECURSIVE SumOf(_, _)
\* The sum of f over the finite set S of indices.
SumOf(f, S) ==
    IF S = {} THEN 0
    ELSE LET x == CHOOSE y \in S : TRUE IN f[x] + SumOf(f, S \ {x})

\* Indices of the calls of the given types that went past the enabled guard.
CallsOf(types) == { j \in 1..Len(calls) : calls[j].eventType \in types /\ calls[j].pushed # <<>> }

\* The opening call (of type opener) that call j closes: the latest opener before
\* j, provided no closing call lies between the two.
OpenerOf(j, opener, closers) ==
    { i \in 1..(j - 1) :
        /\ calls[i].eventType = opener
        /\ calls[i].pushed # <<>>
        /\ \A k \in (i + 1)..(j - 1) : calls[k].eventType \notin (closers \cup {opener}) }

\* The time of the interval still open after the whole history, 0 when none is.
OpenSince(opener, closers) ==
    LET open == OpenerOf(Len(calls) + 1, opener, closers)
    IN  IF open = {} THEN 0 ELSE calls[CHOOSE i \in open : TRUE].at

\* The total length of the intervals the history closes.
ClosedTime(opener, closers) ==
    LET len == [j \in CallsOf(closers) |->
                  SumOf([i \in OpenerOf(j, opener, closers) |-> calls[j].at - calls[i].at],
                        OpenerOf(j, opener, closers))]
    IN  SumOf(len, CallsOf(closers))

\* ------------------------------------------------------------------ claims
\* C4: a play at t1 then a pause or ended at t2 adds exactly t2 - t1 to
\* totalPlayTime, and a further pause or ended with no play in between adds
\* nothing: totalPlayTime is the total length of the play intervals the call
\* history closes, each closed once.
C4_PlayTimeIsClosedIntervals ==
    /\ totalPlayTime = ClosedTime("play", {"pause", "ended"})
    /\ getMetrics.qoe.totalPlayTime = totalPlayTime

\* play at t1, pause at t2 > t1, then a second closing event.
C4_Witness ==
    /\ Len(calls) >= 4
    /\ calls[2].eventType = "play"
    /\ calls[3].eventType = "pause"
    /\ calls[4].eventType \in {"pause", "ended"}
    /\ calls[3].at > calls[2].at
    /\ totalPlayTime = calls[3].at - calls[2].at

\* C5: rebufferCount is the number of buffering_start events tracked so far,
\* whatever the number of buffering_end events and whether or not an interval
\* is still open.
C5_RebufferCountsStarts ==
    /\ rebufferCount = Cardinality(CallsOf({"buffering_start"}))
    /\ getMetrics.qoe.rebufferCount = rebufferCount

\* Two buffering_start with no buffering_end between them.
C5_Witness ==
    /\ Len(calls) >= 3
    /\ calls[2].eventType = "buffering_start"
    /\ calls[3].eventType = "buffering_start"
    /\ rebufferCount = 2

\* C6: totalBufferTime is the total length of the buffering intervals closed by
\* a buffering_end, the marker is open exactly while a buffering_start has not
\* been closed, and after buffering_start, buffering_end, buffering_start the
\* count is 2 and the time is that of the one closed interval.
C6_BufferTimeIsClosedIntervals ==
    /\ totalBufferTime = ClosedTime("buffering_start", {"buffering_end"})
    /\ bufferStartTime = OpenSince("buffering_start", {"buffering_end"})
    /\ (/\ Len(calls) = 4
        /\ calls[2].eventType = "buffering_start"
        /\ calls[3].eventType = "buffering_end"
        /\ calls[4].eventType = "buffering_start")
       => (rebufferCount = 2 /\ totalBufferTime = calls[3].at - calls[2].at)

\* buffering_start, buffering_end later, buffering_start again, never closed.
C6_Witness ==
    /\ Len(calls) = 4
    /\ calls[2].eventType = "buffering_start"
    /\ calls[3].eventType = "buffering_end"
    /\ calls[4].eventType = "buffering_start"
    /\ calls[3].at > calls[2].at
    /\ totalBufferTime > 0
    /\ bufferStartTime # 0

\* The metrics carried by the records pushed so far.
RecordedMetrics == { calls[j].pushed[1].data.metrics : j \in CallsOf(IntervalEventTypes) }

\* C7: the bufferingRatio of getMetrics() and of every record is never
\* negative, and is 0 whenever totalPlayTime is 0, whatever totalBufferTime is.
C7_RatioNonNegativeZeroWithoutPlay ==
    /\ getMetrics.qoe.bufferingRatio >= 0
    /\ totalPlayTime = 0 => getMetrics.qoe.bufferingRatio = 0
    /\ \A i \in 1..Len(events) :
          /\ events[i].data.metrics.bufferingRatio >= 0
          /\ events[i].data.metrics.totalPlayTime = 0
                => events[i].data.metrics.bufferingRatio = 0
    /\ \A m \in RecordedMetrics :
          /\ m.bufferingRatio >= 0
          /\ m.totalPlayTime = 0 => m.bufferingRatio = 0

\* Buffer time accumulated, and recorded, while no play time has been.
C7_Witness ==
    /\ totalPlayTime = 0
    /\ totalBufferTime > 0
    /\ \E i \in 1..Len(events) : /\ events[i].data.metrics.totalBufferTime > 0
                                 /\ events[i].data.metrics.totalPlayTime = 0

\* C8: the bufferingRatio of getMetrics() lies between 0 and 1 (in thousandths,
\* between 0 and RatioScale).
C8_RatioAtMostOne ==
    /\ getMetrics.qoe.bufferingRatio >= 0
    /\ getMetrics.qoe.bufferingRatio <= RatioScale

\* C1: once destroy() has run on an enabled instance, a trackEvent() call
\* appends nothing to the event list and hands nothing to any sink.
C1_TrackAfterDestroyIsNoOp ==
    [][(isDestroyed /\ Enabled /\ lastOp' = "trackEvent")
        => /\ events' = events
           /\ httpPosts' = httpPosts
           /\ wsSent' = wsSent
           /\ sioSent' = sioSent]_vars

\* C10: with an endpoint and enabled=true every trackEvent() call (the
\* constructor's and destroy()'s included) has issued exactly one POST, also
\* after a request failed, and the body of the i-th POST reads back as the
\* record the i-th call pushed on the event list.
C10_OnePostPerRecord ==
    /\ (Enabled /\ config.endpoint # Undefined) =>
          /\ Len(httpPosts) = Len(calls)
          /\ \A i \in 1..Len(calls) : calls[i].pushed = << JSONParse(httpPosts[i]) >>
          /\ ~isDestroyed =>
                /\ Len(events) = Len(httpPosts)
                /\ \A i \in 1..Len(events) : events[i] = JSONParse(httpPosts[i])
    /\ (~Enabled \/ config.endpoint = Undefined) => httpPosts = <<>>

\* Several records posted, and a request has failed.
C10_Witness ==
    /\ Enabled
    /\ config.endpoint # Undefined
    /\ config.videoId = Undefined
    /\ ~isDestroyed
    /\ Len(httpPosts) = 3
    /\ lastOp = "fetchReject"

\* C9: getEvents() never hands out the internal array, and a caller adding,
\* removing or replacing elements of a returned array leaves the internal event
\* list, what a later getEvents() copies, and getMetrics().eventCount as they were.
C9_ReturnedArrayIsDetached ==
    /\ [](eventsRef \notin callerRefs)
    /\ [][lastOp' = "mutate"
          => /\ events' = events
             /\ getEvents.heap'[getEvents.ref'] = getEvents.heap[getEvents.ref]
             /\ getMetrics.eventCount' = getMetrics.eventCount]_vars

\* The caller has changed an array returned while the list was not empty.
C9_Witness ==
    /\ lastOp = "mutate"
    /\ Len(events) > 0
    /\ \E r \in callerRefs : arrays[r] # events

\* The reconnect attempts made for the timer armed by close c.
AttemptsFor(c) == { k \in 1..Len(attempts) : attempts[k].timer = c.timer }

\* The closes that happened with autoReconnect on and the facade not destroyed.
ReconnectingCloses ==
    { i \in 1..Len(closes) : AutoReconnect /\ ~closes[i].destroyed }

\* The delay the documentation promises: reconnectDelay, 3000 ms when absent.
PromisedDelay ==
    IF config.webSocket.reconnectDelay # 0 THEN config.webSocket.reconnectDelay ELSE 3000

\* C2: once destroy() has been called no reconnect timer is pending, no
\* reconnect attempt is made and no WebSocket is created, whatever the order of
\* destroy(), close events and timer expiry.
C2_NoReconnectAfterDestroy ==
    [][isDestroyed' => /\ timers' = {}
                       /\ attempts' = attempts
                       /\ Len(sockets') = Len(sockets)]_vars

\* destroy() ran while a reconnect timer was pending, and the time at which the
\* timer would have expired has come.
C2_Witness ==
    /\ isDestroyed
    /\ \E i \in 1..Len(closes) :
          /\ closes[i].timer # 0
          /\ AttemptsFor(closes[i]) = {}
          /\ clock >= closes[i].at + PromisedDelay

C3_OneAttemptPerClose ==
    /\ \A i \in ReconnectingCloses :
          LET c == closes[i] IN
          /\ c.timer # 0
          /\ \A j \in 1..Len(closes) : closes[j].timer = c.timer => j = i
          /\ Cardinality(AttemptsFor(c)) <= 1
          /\ \A k \in AttemptsFor(c) : attempts[k].at = c.at + PromisedDelay
          /\ (AttemptsFor(c) = {} /\ ~isDestroyed) =>
                /\ [id |-> c.timer, deadline |-> c.at + PromisedDelay] \in timers
                /\ clock <= c.at + PromisedDelay
    /\ \A k \in 1..Len(attempts) :
          \E i \in ReconnectingCloses : closes[i].timer = attempts[k].timer

\* A close still waiting for its reconnect attempt, the facade not destroyed.
ReconnectPending ==
    /\ ~isDestroyed
    /\ \E i \in ReconnectingCloses : AttemptsFor(closes[i]) = {}

\* C3: with autoReconnect not false and the facade not destroyed, each close of
\* the channel gets exactly one reconnect attempt, made reconnectDelay ms after
\* the close (3000 ms when reconnectDelay is absent) and not before; the attempt
\* does come unless destroy() intervenes.
C3_ReconnectOnceAfterDelay ==
    /\ []C3_OneAttemptPerClose
    /\ (ReconnectPending ~> ~ReconnectPending)

\* The records the history says were pushed, in call order.
PushedRecords ==
    LET made == SelectSeq(calls, LAMBDA c : c.pushed # <<>>)
    IN  [k \in 1..Len(made) |-> made[k].pushed[1]]

\* C11: no trackEvent() call ends with an exception, whatever a sink does
\* (fetch rejecting, send or emit throwing): its record is on the event list,
\* the metrics count it, and the sends after the failing one are still made,
\* in particular the POST to a configured endpoint.
C11_SinkFailureIsContained ==
    /\ \A i \in 1..Len(calls) :
          calls[i].pushed # <<>> =>
             /\ ~calls[i].threw
             /\ calls[i].sio # "unreached"
             /\ calls[i].http = (IF config.endpoint # Undefined THEN "posted" ELSE "skipped")
    /\ config.enabled = "true" =>
          /\ rebufferCount = Cardinality(CallsOf({"buffering_start"}))
          /\ bufferStartTime = OpenSince("buffering_start", {"buffering_end"})
          /\ ~isDestroyed => events = PushedRecords
          /\ config.endpoint # Undefined =>
                httpPosts = [k \in 1..Len(PushedRecords) |-> JSONStringify(PushedRecords[k])]

\* The WebSocket send threw for a buffering_start record that was posted and
\* counted all the same, and a fetch has rejected.
C11_Witness ==
    /\ Len(calls) >= 2
    /\ calls[2].eventType = "buffering_start"
    /\ calls[2].ws = "sendThrew"
    /\ calls[2].http = "posted"
    /\ rebufferCount = 1
    /\ Len(events) = 2
    /\ lastOp = "fetchReject"

\* The payloads of the calls whose send on the given duplex sink went through.
DeliveredOn(sink) ==
    LET made == SelectSeq(calls, LAMBDA c : c[sink] = "sent")
    IN  [k \in 1..Len(made) |-> Payload(made[k].pushed[1])]

\* C12: what a duplex sink has been given is exactly, in order and once each,
\* the records of the calls made while it was Open; a record tracked while the
\* sink was not Open is never sent on it, also after the sink opens.
C12_NoQueueingOnDuplexSinks ==
    /\ wsSent = [k \in 1..Len(DeliveredOn("ws")) |-> Serialize(DeliveredOn("ws")[k])]
    /\ sioSent = [k \in 1..Len(DeliveredOn("sio")) |->
                    [eventName |-> "analytics", payload |-> DeliveredOn("sio")[k]]]
    /\ \A i \in 1..Len(calls) :
          /\ ~calls[i].wsOpen => calls[i].ws \in {"skipped", "unreached"}
          /\ ~calls[i].sioOpen => calls[i].sio \in {"skipped", "unreached"}

\* A record was tracked before the socket opened, the socket opened, and only
\* the record tracked after that was sent.
C12_Witness ==
    /\ Len(calls) >= 2
    /\ calls[1].pushed # <<>>
    /\ ~calls[1].wsOpen
    /\ calls[2].ws = "sent"
    /\ Len(wsSent) = 1
    /\ ~isDestroyed

\* C13: destroy() on an enabled instance builds a session_end record and hands
\* it to every sink that is Open when destroy() is called (the send is made,
\* and unless it throws the sink has the record), and only then closes the
\* WebSocket or disconnects the Socket.IO client and drops the reference.
C13_SessionEndBeforeTeardown ==
    [][(lastOp' = "destroy" /\ config.enabled = "true") =>
         LET e == calls'[Len(calls')] IN
         /\ Len(calls') = Len(calls) + 1
         /\ e.eventType = "session_end"
         /\ e.pushed # <<>>
         /\ WebSocketIsOpen =>
               /\ e.ws \in {"sent", "transformThrew", "sendThrew"}
               /\ e.ws = "sent" => wsSent' = Append(wsSent, Serialize(Payload(e.pushed[1])))
               /\ sockets'[webSocket].readyState = "CLOSING"
         /\ SioConnected =>
               /\ e.sio \in {"sent", "transformThrew", "emitThrew"}
               /\ e.sio = "sent" =>
                     sioSent' = Append(sioSent, [eventName |-> "analytics",
                                                 payload |-> Payload(e.pushed[1])])
               /\ ~sio'.connected /\ ~sio'.listeners
         /\ config.endpoint # Undefined =>
               httpPosts' = Append(httpPosts, JSONStringify(e.pushed[1]))
         /\ webSocket' = 0
         /\ socketIO' = 0]_vars

\* destroy() found the WebSocket open: session_end is the last message sent on
\* it and the socket is closing.
C13_Witness ==
    /\ lastOp = "destroy"
    /\ Len(calls) >= 2
    /\ Len(sockets) = 1
    /\ calls[Len(calls)].wsOpen
    /\ calls[Len(calls)].ws = "sent"
    /\ Len(wsSent) >= 1
    /\ JSONField(wsSent[Len(wsSent)], "eventType") = "session_end"
    /\ sockets[1].readyState = "CLOSING"

\* C14: on an enabled instance that has not been destroyed, getEvents() returns
\* one record per trackEvent() call since construction, in call order, the
\* first being the constructor's session_start; no step removes or reorders a
\* record of the list.
C14_EventsAreCallHistory ==
    /\ []((config.enabled = "true" /\ ~isDestroyed) =>
            /\ getEvents.heap[getEvents.ref] = PushedRecords
            /\ Len(PushedRecords) = Len(calls)
            /\ Len(events) >= 1
            /\ events[1].eventType = "session_start")
    /\ [][~isDestroyed' => (/\ Len(events') >= Len(events)
                            /\ SubSeq(events', 1, Len(events)) = events)]_vars

\* Three records on the list, read back by the caller.
C14_Witness ==
    /\ ~isDestroyed
    /\ Len(events) = 3
    /\ events[3].eventType = "play"
    /\ lastOp = "getEvents"
    /\ \E r \in callerRefs : arrays[r] = events

\* C15: when enabled is not true nothing is ever recorded, counted or sent:
\* neither the constructor, nor trackEvent(), nor destroy() appends a record,
\* changes a counter or a marker, or hands anything to a sink.
C15_DisabledDoesNothing ==
    /\ [](config.enabled # "true" =>
            /\ events = <<>>
            /\ \A i \in 1..Len(calls) : calls[i].pushed = <<>>
            /\ <<totalPlayTime, totalBufferTime, rebufferCount, seekCount>> = <<0, 0, 0, 0>>
            /\ <<playbackStartTime, bufferStartTime>> = <<0, 0>>
            /\ <<httpPosts, wsSent, sioSent>> = <<<<>>, <<>>, <<>>>>)
    /\ [][(config.enabled # "true" /\ lastOp' \in {"trackEvent", "destroy"}) =>
            /\ events' = events
            /\ UNCHANGED <<metricVars, sinkLogs>>]_vars

\* A disabled instance with an endpoint and an open socket was sent two
\* notifications and then destroyed.
C15_Witness ==
    /\ config.enabled # "true"
    /\ config.endpoint # Undefined
    /\ Len(calls) = 2
    /\ calls[1].wsOpen
    /\ calls[2].eventType = "buffering_start"
    /\ isDestroyed

\* C16: the record built by trackEvent(e) carries the metrics after e: its
\* totalPlayTime, rebufferCount and seekCount are those of the accumulator once
\* the call has returned.
C16_RecordCarriesMetricsAfterEvent ==
    [][lastOp' = "trackEvent" =>
         LET m == calls'[Len(calls')].pushed[1].data.metrics IN
         /\ m.totalPlayTime = totalPlayTime'
         /\ m.rebufferCount = rebufferCount'
         /\ m.seekCount = seekCount']_vars

\* C17: a transform that throws costs the duplex sink that one record and
\* nothing else: no call throws, every record is on the list and posted to a
\* configured endpoint, a trackEvent() call leaves the socket and the client as
\* they were, and every record tracked while the sink is Open whose transform
\* and send succeed is delivered, also after an earlier transform threw.
C17_ThrowingTransformLosesOneRecord ==
    /\ [](\A i \in 1..Len(calls) :
            calls[i].pushed # <<>> =>
               /\ ~calls[i].threw
               /\ calls[i].http # "unreached"
               /\ config.endpoint # Undefined =>
                     \E k \in 1..Len(httpPosts) : httpPosts[k] = JSONStringify(calls[i].pushed[1])
               /\ ~isDestroyed => events[i] = calls[i].pushed[1]
               /\ calls[i].ws = "transformThrew" => calls[i].wsOpen
               /\ calls[i].sio = "transformThrew" => calls[i].sioOpen)
    /\ [][lastOp' = "trackEvent" =>
            /\ UNCHANGED <<sockets, webSocket, sio, socketIO>>
            /\ (Enabled /\ WebSocketIsOpen) =>
                  calls'[Len(calls')].ws \in {"sent", "transformThrew", "sendThrew"}
            /\ (Enabled /\ SioConnected) =>
                  calls'[Len(calls')].sio \in {"sent", "transformThrew", "emitThrew"}]_vars

\* The transform threw for one record on the Socket.IO sink, the record was
\* posted, and the next record was emitted.
C17_Witness ==
    /\ Len(calls) >= 3
    /\ calls[2].sio = "transformThrew"
    /\ calls[2].http = "posted"
    /\ calls[3].sio = "sent"
    /\ Len(sioSent) >= 1
    /\ sioSent[Len(sioSent)].payload = Payload(calls[3].pushed[1])
    /\ ~isDestroyed

\* C18: a reconnect timer callback that runs after destroy() creates no
\* WebSocket and leaves webSocket null.
C18_TimerCallbackChecksDestroyed ==
    [][(isDestroyed /\ lastOp' = "reconnect") =>
          /\ webSocket' = 0
          /\ sockets' = sockets]_vars

\* C19: with a Socket.IO URL, once destroy() has run there is no Socket.IO
\* client that is still active or still has the listeners attached, whether
\* the dynamic import resolved before destroy() or after it.
C19_NoSocketIOOutlivesDestroy ==
    (isDestroyed /\ config.webSocket.type = "socket.io" /\ config.webSocket.connection = "url")
       => /\ socketIO = 0
          /\ ~(sio.exists /\ (sio.active \/ sio.listeners))

\* C20: a caller's onClose that throws does not stop the handler: every close
\* that happens with autoReconnect on and the facade not destroyed has armed
\* its reconnect timer.
C20_ThrowingOnCloseStillArmsTimer ==
    \A i \in ReconnectingCloses : closes[i].timer # 0

\* C21: destroy() always ends normally with its cleanup done: whichever
\* teardown call throws, the socket references are null and the event list is
\* empty when it is over.
C21_DestroyCompletesTeardown ==
    [][lastOp' \in {"destroy", "destroyThrew"} =>
          /\ lastOp' = "destroy"
          /\ webSocket' = 0
          /\ socketIO' = 0
          /\ events' = <<>>]_vars

\* C22: a reconnect timer is added only by a close event, with autoReconnect
\* not false and the facade not destroyed; with autoReconnect=false no timer is
\* ever pending, no reconnect is attempted, no second socket is created, and
\* once the socket has closed it stays CLOSED.
C22_TimerOnlyFromReconnectingClose ==
    /\ [][(timers' \ timers # {}) =>
            /\ lastOp' = "wsClose"
            /\ config.webSocket.autoReconnect # "false"
            /\ ~isDestroyed]_vars
    /\ [](config.webSocket.autoReconnect = "false" =>
            /\ timers = {}
            /\ wsReconnectTimeout = 0
            /\ attempts = <<>>
            /\ Len(sockets) = 1
            /\ closes # <<>> => (sockets[1].readyState = "CLOSED" /\ ~WebSocketIsOpen))

\* autoReconnect=false, the socket closed, and time has passed since.
C22_Witness ==
    /\ config.webSocket.autoReconnect = "false"
    /\ ~isDestroyed
    /\ Len(closes) = 1
    /\ clock > closes[1].at + 2
    /\ sockets[1].readyState = "CLOSED"

\* C23: the four counters are never negative and no step lowers one; a pause
\* or ended tracked with no play marker open, and a buffering_end with no
\* buffering marker open, leave all four as they were, and the call returns
\* normally.
C23_CountersMonotone ==
    /\ [](totalPlayTime >= 0 /\ totalBufferTime >= 0 /\ rebufferCount >= 0 /\ seekCount >= 0)
    /\ [][/\ totalPlayTime' >= totalPlayTime
          /\ totalBufferTime' >= totalBufferTime
          /\ rebufferCount' >= rebufferCount
          /\ seekCount' >= seekCount]_vars
    /\ [][lastOp' = "trackEvent" =>
            LET e == calls'[Len(calls')] IN
            /\ ~e.threw
            /\ ((e.eventType \in {"pause", "ended"} /\ playbackStartTime = 0)
                \/ (e.eventType = "buffering_end" /\ bufferStartTime = 0))
                  => UNCHANGED <<totalPlayTime, totalBufferTime, rebufferCount, seekCount>>]_vars

\* A pause tracked some time into a session in which nothing was played.
C23_Witness ==
    /\ Len(calls) = 2
    /\ calls[2].eventType = "pause"
    /\ calls[2].at > sessionStartTime
    /\ totalPlayTime = 0
    /\ lastOp = "trackEvent"

\* C24: a trackEvent() call appends one record; for a type outside the six
\* (session_start in the constructor, session_end in destroy(), error,
\* loadedmetadata) the counters and both markers keep their values, and seeked
\* adds exactly 1 to seekCount and changes nothing else.
C24_OnlySixTypesChangeMetrics ==
    /\ [](Len(calls) = 1 =>
            <<playbackStartTime, totalPlayTime, totalBufferTime, bufferStartTime,
              rebufferCount, seekCount>> = <<0, 0, 0, 0, 0, 0>>)
    /\ [][lastOp' \in {"trackEvent", "destroy"} =>
            LET e == calls'[Len(calls')] IN
            /\ Len(calls') = Len(calls) + 1
            /\ e.pushed # <<>>
            /\ lastOp' = "trackEvent" => events' = Append(events, e.pushed[1])
            /\ e.eventType \notin MetricEventTypes => UNCHANGED metricVars
            /\ e.eventType = "seeked" =>
                  /\ seekCount' = seekCount + 1
                  /\ UNCHANGED <<playbackStartTime, totalPlayTime, totalBufferTime,
                                 bufferStartTime, rebufferCount>>]_vars

\* A seeked, then an error: one seek is counted, and nothing else.
C24_Witness ==
    /\ Len(calls) = 3
    /\ calls[2].eventType = "seeked"
    /\ calls[3].eventType = "error"
    /\ Len(events) = 3
    /\ seekCount = 1
    /\ rebufferCount = 0

\* C25: each record carries the clock of its trackEvent() call as timestamp and
\* that clock minus the session start as sessionDuration, so that both are
\* non-decreasing along the records in call order, the order of getEvents().
C25_DurationComputedPerRecord ==
    /\ \A i \in 1..Len(PushedRecords) :
          /\ PushedRecords[i].timestamp = calls[i].at
          /\ PushedRecords[i].data.metrics.sessionDuration = calls[i].at - sessionStartTime
    /\ \A i, j \in 1..Len(PushedRecords) :
          i <= j => /\ PushedRecords[i].timestamp <= PushedRecords[j].timestamp
                    /\ PushedRecords[i].data.metrics.sessionDuration
                          <= PushedRecords[j].data.metrics.sessionDuration
    /\ ~isDestroyed => getEvents.heap[getEvents.ref] = PushedRecords

\* Three records, one millisecond apart.
C25_Witness ==
    /\ ~isDestroyed
    /\ Len(events) = 3
    /\ events[1].data.metrics.sessionDuration = 0
    /\ events[2].data.metrics.sessionDuration = 1
    /\ events[3].data.metrics.sessionDuration = 2

\* C26: the play marker is the time of the latest play since the last pause or
\* ended, and the buffering marker that of the latest buffering_start since the
\* last buffering_end: after play at t1, play at t2, pause at t3 totalPlayTime
\* is t3 - t2, and after two buffering_start and a buffering_end totalBufferTime
\* is the time since the second.
C26_RestartOverwritesMarker ==
    /\ playbackStartTime = OpenSince("play", {"pause", "ended"})
    /\ (/\ Len(calls) = 4
        /\ calls[2].eventType = "play"
        /\ calls[3].eventType = "play"
        /\ calls[4].eventType \in {"pause", "ended"})
       => totalPlayTime = calls[4].at - calls[3].at
    /\ (/\ Len(calls) = 4
        /\ calls[2].eventType = "buffering_start"
        /\ calls[3].eventType = "buffering_start"
        /\ calls[4].eventType = "buffering_end")
       => totalBufferTime = calls[4].at - calls[3].at

\* play at 1, play at 2, pause at 3.
C26_Witness ==
    /\ Len(calls) = 4
    /\ calls[2].eventType = "play"
    /\ calls[3].eventType = "play"
    /\ calls[4].eventType = "pause"
    /\ calls[2].at < calls[3].at
    /\ calls[3].at < calls[4].at
    /\ totalPlayTime = calls[4].at - calls[3].at

C28_OnePendingTimerTracked ==
    /\ Cardinality(timers) <= 1
    /\ \A t \in timers : t.id = wsReconnectTimeout

\* The second reconnect timer of a session is pending.
C28_Witness ==
    /\ Len(closes) = 2
    /\ Len(attempts) = 1
    /\ timers # {}
    /\ wsReconnectTimeout = 2

\* C29: a destroy() call on an instance already destroyed hands nothing to any
\* sink and leaves the event list as it was.
C29_SecondDestroySendsNothing ==
    [][(isDestroyed /\ lastOp' = "destroy") =>
          /\ httpPosts' = httpPosts
          /\ wsSent' = wsSent
          /\ sioSent' = sioSent
          /\ events' = events]_vars

\* C30: when destroy() returns the event list is empty, getEvents() returns an
\* empty array and eventCount is 0; no session_end record is ever on the list
\* or in an array getEvents() returned; eventCount is always the length of
\* what getEvents() returns.
C30_DestroyEmptiesEventList ==
    /\ [][lastOp' = "destroy" =>
            /\ events' = <<>>
            /\ getEvents.heap'[getEvents.ref'] = <<>>
            /\ getMetrics.eventCount' = 0]_vars
    /\ [](getMetrics.eventCount = Len(getEvents.heap[getEvents.ref]))
    /\ [](\A r \in callerRefs \cup {eventsRef} :
            \A i \in 1..Len(arrays[r]) : arrays[r][i].eventType # "session_end")

\* destroy() has returned on an instance that had three records, which the
\* caller had read.
C30_Witness ==
    /\ lastOp = "destroy"
    /\ Len(calls) = 4
    /\ calls[4].eventType = "session_end"
    /\ events = <<>>
    /\ \E r \in callerRefs : Len(arrays[r]) = 3
====
